---- MODULE Spec2Model ----
(***************************************************************************)
(* Model of "Theo 4/packages/formatter.py": the value simplifier           *)
(* _nsimplify_improved, the renderers _nsimplify_scalar and                *)
(* _nsimplify_matrix, and the two display handlers registered by           *)
(* _apply_nsimplify.                                                       *)
(*                                                                         *)
(* Numbers.  A float is modelled as an integer number of grid units; one   *)
(* unit is the module default ZERO_TOL (1e-15), so ZERO_TOL is 1 unit.     *)
(*                                                                         *)
(* Expressions.  A sympy expression is a record                            *)
(*    [kind, val, q, denHas]                                               *)
(* kind "Rational" (Integer included, q its reduced denominator),          *)
(* "Symbolic" (contains a member of allowed_symbolic; denHas says whether  *)
(* its denominator does), "Other" (neither, e.g. a root), "Float" (the     *)
(* result of N(value, sig_digits)); val is its numeric value on the grid.  *)
(* real + imag*I is [kind |-> "Add", re |-> real, im |-> imag].            *)
(*                                                                         *)
(* sympy.nsimplify is a library outside the repository: its outcome is an  *)
(* input, an element of Oracles, that says whether the search raises,      *)
(* which candidate it returns relative to the value searched, and whether  *)
(* one of the four checks made on that candidate raises.                   *)
(***************************************************************************)
EXTENDS Integers, Sequences, FiniteSets

\* ------------------------------------------------------------------------
\* Bounds of the checked inputs
\* ------------------------------------------------------------------------
MaxVal == 12      \* real inputs range over -MaxVal..MaxVal
MaxPart == 2      \* real and imaginary part of complex inputs: -MaxPart..MaxPart
MaxTol == 2       \* zero_tol ranges over 1..MaxTol
MaxDenom == 2     \* max_denom ranges over 1..MaxDenom
MaxSig == 1       \* sig_digits ranges over 1..MaxSig
MaxDim == 7       \* array axes have 0..MaxDim entries
MaxCap == 6       \* each component of truncate_to ranges over 1..MaxCap

\* ------------------------------------------------------------------------
\* Configurable parameters (formatter.py 16-24)
\* ------------------------------------------------------------------------
ZERO_TOL == 1
MAX_DENOM == 10000
SIG_DIGITS == 4
TRUNCATE_TO == <<6, 6>>
EMPTY_STR == [kind |-> "Symbol", name |-> ""]
V_ROWS == [kind |-> "Symbol", name |-> "vdots"]
H_ROWS == [kind |-> "Symbol", name |-> "cdots"]
D_ROWS == [kind |-> "Symbol", name |-> "ddots"]

Defaults == [zero_tol |-> ZERO_TOL, max_denom |-> MAX_DENOM, sig_digits |-> SIG_DIGITS]

None == [kind |-> "None"]

\* ------------------------------------------------------------------------
\* Numbers and expressions
\* ------------------------------------------------------------------------
Abs(x) == IF x < 0 THEN -x ELSE x

RECURSIVE Pow10(_)
Pow10(n) == IF n = 0 THEN 1 ELSE 10 * Pow10(n - 1)

RECURSIVE Digits(_)
Digits(n) == IF n < 10 THEN 1 ELSE 1 + Digits(n \div 10)

\* the value of x kept to k significant decimal digits (half away from zero)
RoundSig(x, k) ==
  IF x = 0 \/ Digits(Abs(x)) <= k THEN x
  ELSE LET s == Pow10(Digits(Abs(x)) - k)
           m == ((Abs(x) + s \div 2) \div s) * s
       IN IF x < 0 THEN -m ELSE m

Integer0 == [kind |-> "Rational", val |-> 0, q |-> 1, denHas |-> FALSE]

\* sympy.N(value, sig_digits)
N(value, sig_digits) ==
  [kind |-> "Float", val |-> RoundSig(value, sig_digits), q |-> 1, denHas |-> FALSE]

\* expr == 0
IsZero(e) == e.kind = "Rational" /\ e.val = 0

\* real + imag * I, with sympy's automatic removal of a zero term
Add(real, imag) ==
  IF IsZero(imag) THEN real ELSE [kind |-> "Add", re |-> real, im |-> imag]

\* the complex number an expression evaluates to, <<real part, imaginary part>>
Eval(e) == IF e.kind = "Add" THEN <<e.re.val, e.im.val>> ELSE <<e.val, 0>>

\* ------------------------------------------------------------------------
\* Outcomes of sympy.nsimplify and of the checks on its candidate
\* ------------------------------------------------------------------------
Raises == {"none", "search", "a", "b", "c", "d"}

Shapes ==
  [kind : {"Rational"}, qsel : {"one", "max", "over"}, denHas : {FALSE}]
    \cup [kind : {"Symbolic"}, qsel : {"one"}, denHas : BOOLEAN]
    \cup [kind : {"Other"}, qsel : {"one"}, denHas : {FALSE}]

Nears == {<<"exact", 1>>, <<"inside", 1>>, <<"inside", -1>>, <<"edge", 1>>,
          <<"edge", -1>>, <<"outside", 1>>, <<"outside", -1>>}

SearchRaises == [raise |-> "search", shape |-> [kind |-> "Other", qsel |-> "one", denHas |-> FALSE],
                 near |-> <<"exact", 1>>]

Oracles ==
  {SearchRaises} \cup
  [raise : Raises \ {"search"}, shape : Shapes, near : Nears]

\* distance of the candidate from the value searched, for a tolerance
Offset(near, zero_tol) ==
  near[2] * (CASE near[1] = "exact" -> 0
               [] near[1] = "inside" -> zero_tol - 1
               [] near[1] = "edge" -> zero_tol
               [] near[1] = "outside" -> zero_tol + 1)

Denominator(qsel, max_denom) ==
  CASE qsel = "one" -> 1
    [] qsel = "max" -> max_denom
    [] qsel = "over" -> max_denom + 1

\* candidate = nsimplify(value, allowed_symbolic)
Candidate(value, p, o) ==
  LET v == value + Offset(o.near, p.zero_tol)
  IN [kind |-> o.shape.kind,
      val |-> v,
      q |-> IF o.shape.kind = "Rational" /\ v # 0
              THEN Denominator(o.shape.qsel, p.max_denom) ELSE 1,
      denHas |-> o.shape.denHas]

\* the search returned a rational whose reduced denominator exceeds max_denom
OverDenom(value, p, o) ==
  /\ o.raise # "search"
  /\ Candidate(value, p, o).kind = "Rational"
  /\ Candidate(value, p, o).q > p.max_denom

\* ------------------------------------------------------------------------
\* _nsimplify_improved (formatter.py 54-89)
\* ------------------------------------------------------------------------
Ok(e) == [tag |-> "ok", e |-> e]
Exc == [tag |-> "exc", e |-> None]

\* line 72: abs(value) < zero_tol
NearZero(value, zero_tol) == Abs(value) < zero_tol

\* line 78: abs(float(N(candidate)) - value) > zero_tol
GateA(c, value, zero_tol) == Abs(c.val - value) > zero_tol

\* the denominator check left out
GateB_Skipped(c, max_denom) == FALSE

\* line 80: candidate.is_Rational and candidate.q > max_denom
GateB(c, max_denom) == c.kind = "Rational" /\ c.q > max_denom

\* line 82: candidate.as_numer_denom()[1].has(*allowed_symbolic)
GateC(c) == c.denHas

\* line 84: not candidate.has(*allowed_symbolic) and not candidate.is_Rational
GateD(c) == c.kind # "Symbolic" /\ c.kind # "Rational"

\* the body of the try statement, lines 77-85: "raise" when a statement of it
\* raises, "return" when one of its four return statements is taken, "pass"
\* when control leaves the try statement with the candidate
TryBody(value, p, o) ==
  IF o.raise = "search" THEN [tag |-> "raise", e |-> None]
  ELSE LET c == Candidate(value, p, o)
           fallback == [tag |-> "return", e |-> N(value, p.sig_digits)]
           raised == [tag |-> "raise", e |-> None]
       IN IF o.raise = "a" THEN raised
          ELSE IF GateA(c, value, p.zero_tol) THEN fallback
          ELSE IF o.raise = "b" THEN raised
          ELSE IF GateB(c, p.max_denom) THEN fallback
          ELSE IF o.raise = "c" THEN raised
          ELSE IF GateC(c) THEN fallback
          ELSE IF o.raise = "d" THEN raised
          ELSE IF GateD(c) THEN fallback
          ELSE [tag |-> "pass", e |-> c]

\* an except clause that lets the exception go on to the caller
ExceptHandler_Reraise(value, p) == Exc

\* lines 86-87: except Exception: return N(value, sig_digits)
ExceptHandler(value, p) == Ok(N(value, p.sig_digits))

\* the search and its checks made before the near-zero test
RealPath_SearchFirst(value, p, o) ==
  LET t == TryBody(value, p, o)
  IN IF t.tag = "raise" THEN ExceptHandler(value, p)
     ELSE IF t.tag = "return" THEN Ok(t.e)
     ELSE IF NearZero(value, p.zero_tol) THEN Ok(Integer0)
     ELSE Ok(t.e)

\* lines 71-89, the path of a value that is not complex
RealPath(value, p, o) ==
  IF NearZero(value, p.zero_tol) THEN Ok(Integer0)
  ELSE LET t == TryBody(value, p, o)
       IN IF t.tag = "raise" THEN ExceptHandler(value, p) ELSE Ok(t.e)

\* the first return statement returning the wrong part
Combine_ReturnsImag(real, imag) ==
  IF IsZero(imag) THEN imag
  ELSE IF IsZero(real) THEN imag
  ELSE Add(real, imag)

\* lines 65-69
Combine(real, imag) ==
  IF IsZero(imag) THEN real
  ELSE IF IsZero(real) THEN imag
  ELSE Add(real, imag)

\* the whole function on one value; oRe and oIm are the outcomes of the search
\* on the real and on the imaginary part
nsimplify_improved(v, p, oRe, oIm) ==
  IF ~v.cx THEN RealPath(v.re, p, oRe)
  ELSE LET real == RealPath(v.re, p, oRe)
           imag == RealPath(v.im, p, oIm)
       IN IF real.tag = "exc" \/ imag.tag = "exc" THEN Exc
          ELSE Ok(Combine(real.e, imag.e))

\* ------------------------------------------------------------------------
\* sympy.latex and the f-string of the handlers
\* ------------------------------------------------------------------------
Latex(x) == [kind |-> "latex", of |-> x]

\* str() as applied by the f-string: None is formatted as the text None
Str(x) == IF x = None THEN "None" ELSE x

\* f"${...}$", lines 146 and 149
Handler(rendered) == [kind |-> "str", text |-> <<"$", Str(rendered), "$">>]

\* ------------------------------------------------------------------------
\* _nsimplify_matrix (formatter.py 91-135)
\* ------------------------------------------------------------------------
Size(a) ==
  CASE a.ndim = 0 -> 1
    [] a.ndim = 1 -> a.rows
    [] a.ndim = 2 -> a.rows * a.cols
    [] OTHER -> a.rows * a.cols * 2

\* array[i, j] as complex(x); indices from 0, a 1-D array has cols = 1
Element(a, i, j) ==
  [cx |-> TRUE, re |-> a.base + i * a.cols + j, im |-> a.im]

\* array.item() of a 0-D array
Item(a) == [cx |-> a.kind = "c", re |-> a.base, im |-> a.im]

\* the 0-D delegation placed before the dtype test
Branch_0DFirst(a, truncate_to) ==
  LET max_cols == truncate_to[1]
      max_rows == truncate_to[2]
  IN IF Size(a) = 0 THEN "none"
     ELSE IF a.ndim = 0 THEN "0d"
     ELSE IF a.kind \in {"U", "S", "O"} THEN "none"
     ELSE IF a.ndim > 2 THEN "none"
     ELSE IF a.ndim = 1 /\ Size(a) > max_rows THEN "1d_trunc"
     ELSE IF a.ndim = 2 /\ a.rows > max_cols /\ a.cols > max_rows THEN "2d_trunc"
     ELSE "full"

\* lines 95-131: which return statement the array reaches
Branch(a, truncate_to) ==
  LET max_cols == truncate_to[1]
      max_rows == truncate_to[2]
  IN IF Size(a) = 0 THEN "none"
     ELSE IF a.kind \in {"U", "S", "O"} THEN "none"
     ELSE IF a.ndim > 2 THEN "none"
     ELSE IF a.ndim = 0 THEN "0d"
     ELSE IF a.ndim = 1 /\ Size(a) > max_rows THEN "1d_trunc"
     ELSE IF a.ndim = 2 /\ a.rows > max_cols /\ a.cols > max_rows THEN "2d_trunc"
     ELSE "full"

\* the leading indices without the index of the last entry: range(m)
TruncIdx_NoLast(m) == [i \in 1..m |-> i - 1]

\* lines 108-109: [i for i in range(m - 1)] + [-1]
TruncIdx(m) == [i \in 1..(m - 1) |-> i - 1] \o <<-1>>

\* numpy index resolution: a negative index counts from the end
Resolve(i, len) == IF i < 0 THEN len + i ELSE i
ValidIdx(idx, len) ==
  \A k \in 1..Len(idx) : Resolve(idx[k], len) >= 0 /\ Resolve(idx[k], len) < len

\* sympy's normalisation of an insert position
InsertPos(pos, len) ==
  LET p1 == IF pos < 0 THEN len + pos ELSE pos
  IN IF p1 < 0 THEN 0 ELSE IF p1 > len THEN len ELSE p1

\* Matrix.row_insert(pos, other): M and other are sequences of rows
RowInsert(M, pos, other) ==
  LET k == InsertPos(pos, Len(M))
  IN SubSeq(M, 1, k) \o other \o SubSeq(M, k + 1, Len(M))

\* Matrix.col_insert(pos, other): other is a column, one cell per row
ColInsert(M, pos, other) ==
  LET k == InsertPos(pos, Len(M[1]))
  IN [r \in 1..Len(M) |->
        SubSeq(M[r], 1, k) \o <<other[r]>> \o SubSeq(M[r], k + 1, Len(M[r]))]

\* lines 125 and 126: the literal ellipsis row and ellipsis column
EllipsisRow == <<EMPTY_STR, EMPTY_STR, V_ROWS, EMPTY_STR, EMPTY_STR, EMPTY_STR>>
EllipsisCol == <<EMPTY_STR, EMPTY_STR, H_ROWS, EMPTY_STR, EMPTY_STR, D_ROWS, EMPTY_STR>>

\* one cell of Matrix(...).applyfunc(lambda x: _nsimplify_improved(complex(x)))
Cell(a, i, j, eo) == nsimplify_improved(Element(a, i, j), Defaults, eo, eo)

\* Matrix(array[np.ix_(ridx, cidx)]).applyfunc(...): outcomes, row by row
Cells(a, ridx, cidx, eo) ==
  [r \in 1..Len(ridx) |->
     [c \in 1..Len(cidx) |->
        Cell(a, Resolve(ridx[r], a.rows), Resolve(cidx[c], a.cols), eo)]]

AllOk(M) == \A r \in 1..Len(M) : \A c \in 1..Len(M[r]) : M[r][c].tag = "ok"
Exprs(M) == [r \in 1..Len(M) |-> [c \in 1..Len(M[r]) |-> M[r][c].e]]

Rendered(out, calls) == [tag |-> "out", out |-> out, calls |-> calls]

\* lines 112-118
Trunc1D(a, max_rows, eo) ==
  LET ridx == TruncIdx(max_rows)
      M == Cells(a, ridx, <<0>>, eo)
  IN IF ~ValidIdx(ridx, a.rows) THEN Rendered(None, 0)
     ELSE IF ~AllOk(M) THEN Rendered(None, Len(ridx))
     ELSE Rendered(Latex(RowInsert(Exprs(M), max_rows - 1, <<<<V_ROWS>>>>)), Len(ridx))

\* lines 122-129
Trunc2D(a, max_cols, max_rows, eo) ==
  LET ridx == TruncIdx(max_rows)
      cidx == TruncIdx(max_cols)
      M == Cells(a, ridx, cidx, eo)
      n == Len(ridx) * Len(cidx)
  IN IF ~ValidIdx(ridx, a.rows) \/ ~ValidIdx(cidx, a.cols) THEN Rendered(None, 0)
     ELSE IF ~AllOk(M) THEN Rendered(None, n)
     ELSE IF Len(cidx) # Len(EllipsisRow) THEN Rendered(None, n)
     ELSE LET M1 == RowInsert(Exprs(M), max_rows - 1, <<EllipsisRow>>)
          IN IF Len(M1) # Len(EllipsisCol) THEN Rendered(None, n)
             ELSE Rendered(Latex(ColInsert(M1, max_cols - 1, EllipsisCol)), n)

\* lines 132-135
Full(a, eo) ==
  LET M == Cells(a, [i \in 1..a.rows |-> i - 1], [j \in 1..a.cols |-> j - 1], eo)
  IN IF ~AllOk(M) THEN Rendered(None, a.rows * a.cols)
     ELSE Rendered(Latex(Exprs(M)), a.rows * a.cols)

\* the whole function, but for the call of _nsimplify_scalar on a 0-D array,
\* which is reported as "delegate"
nsimplify_matrix(a, truncate_to, eo) ==
  LET b == Branch(a, truncate_to)
  IN CASE b = "none" -> Rendered(None, 0)
       [] b = "0d" -> [tag |-> "delegate", out |-> None, calls |-> 0]
       [] b = "1d_trunc" -> Trunc1D(a, truncate_to[2], eo)
       [] b = "2d_trunc" -> Trunc2D(a, truncate_to[1], truncate_to[2], eo)
       [] b = "full" -> Full(a, eo)

\* ------------------------------------------------------------------------
\* Inputs
\* ------------------------------------------------------------------------
RealValues == [cx : {FALSE}, re : -MaxVal..MaxVal, im : {0}]
ComplexValues == [cx : {TRUE}, re : -MaxPart..MaxPart, im : -MaxPart..MaxPart]
Values == RealValues \cup ComplexValues

Params == [zero_tol : 1..MaxTol, max_denom : 1..MaxDenom, sig_digits : 1..MaxSig]

Windows == (1..MaxCap) \X (1..MaxCap)

Kinds == {"f", "i", "c", "U", "S", "O"}

ArraysOf(ndims, rows, cols, bases) ==
  { [ndim |-> d, rows |-> r, cols |-> c, kind |-> k, base |-> b,
     im |-> IF k = "c" THEN 1 ELSE 0] :
       d \in ndims, r \in rows, c \in cols, k \in Kinds, b \in bases }

Arrays ==
  ArraysOf({0}, {1}, {1}, {0, 1})
    \cup ArraysOf({1}, 0..MaxDim, {1}, {0})
    \cup ArraysOf({2}, 0..MaxDim, 0..MaxDim, {0})
    \cup ArraysOf({3}, {0, 1}, {0, 1}, {0})

\* search outcomes applied to the elements of an array (one per array)
ElemOracles ==
  {SearchRaises} \cup [raise : {"none"}, shape : Shapes, near : {<<"exact", 1>>}]

NoValue == [cx |-> FALSE, re |-> 0, im |-> 0]
NoArray == [ndim |-> 0, rows |-> 1, cols |-> 1, kind |-> "f", base |-> 0, im |-> 0]

\* ------------------------------------------------------------------------
\* State
\* ------------------------------------------------------------------------
VARIABLES
  entry,        \* the function called from outside: "improved", "scalar",
                \* "matrix", "scalar_handler" or "array_handler"
  pc,           \* position of the call
  value,        \* argument of _nsimplify_improved
  par,          \* zero_tol, max_denom, sig_digits of the call
  array,        \* argument of _nsimplify_matrix
  truncate_to,  \* argument of _nsimplify_matrix
  orc,          \* outcome of the search of a call on a value that is not
                \* complex (of every element, for an array)
  over,         \* <<r, i>>: the search on the real (only) part, on the imaginary
                \* part, returned a rational with denominator above max_denom
  real,         \* line 63
  imag,         \* line 64
  expr,         \* what _nsimplify_improved returned, or Exc
  out,          \* what _nsimplify_scalar or _nsimplify_matrix returned
  shown,        \* what the handler returned
  calls         \* invocations of _nsimplify_improved from outside itself

vars == <<entry, pc, value, par, array, truncate_to, orc, over, real, imag, expr, out, shown, calls>>

Pending == [tag |-> "pending", e |-> None]

InitCommon ==
  /\ orc = SearchRaises
  /\ over = <<FALSE, FALSE>>
  /\ real = Pending
  /\ imag = Pending
  /\ expr = Pending
  /\ out = None
  /\ shown = None
  /\ calls = 0

Init ==
  /\ InitCommon
  /\ \/ /\ entry = "improved"
        /\ pc = "improved"
        /\ value \in Values
        /\ par \in Params
        /\ array = NoArray
        /\ truncate_to = TRUNCATE_TO
     \/ /\ entry \in {"scalar", "scalar_handler"}
        /\ pc = "improved"
        /\ value \in Values
        /\ par = Defaults
        /\ array = NoArray
        /\ truncate_to = TRUNCATE_TO
     \/ /\ entry = "matrix"
        /\ pc = "matrix"
        /\ value = NoValue
        /\ par = Defaults
        /\ array \in Arrays
        /\ truncate_to \in Windows
     \/ /\ entry = "array_handler"
        /\ pc = "matrix"
        /\ value = NoValue
        /\ par = Defaults
        /\ array \in Arrays
        /\ truncate_to = TRUNCATE_TO

\* where control goes when _nsimplify_improved returns
AfterImproved == IF entry = "improved" THEN "done" ELSE "latex"

\* where control goes when a renderer returns
AfterRender == IF entry \in {"scalar_handler", "array_handler"} THEN "wrap" ELSE "done"

\* _nsimplify_improved on a value that is not complex (lines 71-89)
RealCall ==
  /\ pc = "improved"
  /\ ~value.cx
  /\ \E o \in Oracles :
       /\ expr' = RealPath(value.re, par, o)
       /\ orc' = o
       /\ over' = <<OverDenom(value.re, par, o), FALSE>>
  /\ calls' = calls + 1
  /\ pc' = AfterImproved
  /\ UNCHANGED <<entry, value, par, array, truncate_to, real, imag, out, shown>>

\* line 63: the recursive call on value.real
ComplexReal ==
  /\ pc = "improved"
  /\ value.cx
  /\ \E o \in Oracles :
       /\ real' = RealPath(value.re, par, o)
       /\ over' = <<OverDenom(value.re, par, o), FALSE>>
  /\ calls' = calls + 1
  /\ pc' = "imag"
  /\ UNCHANGED <<entry, value, par, array, truncate_to, orc, imag, expr, out, shown>>

\* line 64: the recursive call on value.imag; the search is a function of its
\* argument, so equal parts get the same outcome
ComplexImag ==
  /\ pc = "imag"
  /\ IF value.im = value.re
       THEN imag' = real /\ over' = <<over[1], over[1]>>
       ELSE \E o \in Oracles :
              /\ imag' = RealPath(value.im, par, o)
              /\ over' = <<over[1], OverDenom(value.im, par, o)>>
  /\ pc' = "combine"
  /\ UNCHANGED <<entry, value, par, array, truncate_to, orc, real, expr, out, shown, calls>>

\* lines 65-69
ComplexCombine ==
  /\ pc = "combine"
  /\ expr' = IF real.tag = "exc" \/ imag.tag = "exc" THEN Exc
             ELSE Ok(Combine(real.e, imag.e))
  /\ pc' = AfterImproved
  /\ UNCHANGED <<entry, value, par, array, truncate_to, orc, over, real, imag, out, shown, calls>>

\* _nsimplify_scalar (lines 137-141), after its call of _nsimplify_improved
\* returned or raised; latex may raise as well
ScalarLatex ==
  /\ pc = "latex"
  /\ \E fails \in BOOLEAN :
       out' = IF expr.tag = "exc" \/ fails THEN None ELSE Latex(expr.e)
  /\ pc' = AfterRender
  /\ UNCHANGED <<entry, value, par, array, truncate_to, orc, over, real, imag, expr, shown, calls>>

\* _nsimplify_matrix (lines 91-135); a 0-D array goes on to _nsimplify_scalar
Matrix ==
  /\ pc = "matrix"
  /\ \E eo \in ElemOracles :
       LET r == nsimplify_matrix(array, truncate_to, eo)
       IN IF r.tag = "delegate"
            THEN /\ value' = Item(array)
                 /\ pc' = "improved"
                 /\ UNCHANGED <<orc, out, calls>>
            ELSE /\ out' = r.out
                 /\ calls' = r.calls
                 /\ orc' = eo
                 /\ pc' = AfterRender
                 /\ UNCHANGED value
  /\ UNCHANGED <<entry, par, array, truncate_to, over, real, imag, expr, shown>>

\* the lambdas registered with fmt.for_type (lines 146-149)
HandlerReturn ==
  /\ pc = "wrap"
  /\ shown' = Handler(out)
  /\ pc' = "done"
  /\ UNCHANGED <<entry, value, par, array, truncate_to, orc, over, real, imag, expr, out, calls>>

Next ==
  \/ RealCall
  \/ ComplexReal
  \/ ComplexImag
  \/ ComplexCombine
  \/ ScalarLatex
  \/ Matrix
  \/ HandlerReturn

Spec == Init /\ [][Next]_vars

\* ------------------------------------------------------------------------
\* Properties
\* ------------------------------------------------------------------------
Returned == expr.tag # "pending"
Rendering == pc \in {"wrap", "done"} /\ entry \in {"matrix", "array_handler"}
Numeric(a) == a.kind \notin {"U", "S", "O"}

\* two complex numbers, given as pairs, differ by at most tol in each part
Within(a, b, tol) == Abs(a[1] - b[1]) <= tol /\ Abs(a[2] - b[2]) <= tol

\* the decimal rounding of a value to sig_digits significant digits
Rounding(v, p) ==
  IF ~v.cx THEN N(v.re, p.sig_digits)
  ELSE [kind |-> "Add", re |-> N(v.re, p.sig_digits), im |-> N(v.im, p.sig_digits)]

\* C1: whatever the search does, the expression _nsimplify_improved returns
\* evaluates to within zero_tol of the value, or is the rounding of the value
\* to sig_digits significant digits; complex values included.
C1_WithinTolOrRounding ==
  (entry = "improved" /\ pc = "done" /\ expr.tag = "ok") =>
     \/ Within(Eval(expr.e), <<value.re, value.im>>, par.zero_tol)
     \/ expr.e = Rounding(value, par)

\* C2: for a value that is not complex and has |value| < zero_tol the result
\* is the integer zero, whatever the outcome of the search would be.
C2_NearZeroSnap ==
  (Returned /\ ~value.cx /\ Abs(value.re) < par.zero_tol) => expr = Ok(Integer0)

C2_Witness ==
  /\ Returned /\ ~value.cx
  /\ value.re # 0 /\ Abs(value.re) < par.zero_tol
  /\ orc.raise = "none" /\ orc.shape.kind = "Rational" /\ orc.near[1] = "exact"
  /\ expr = Ok(Integer0)

\* C3: a handler returns None when its renderer returned None, and the
\* renderer's string between math-mode delimiters otherwise.
C3_HandlerNull ==
  (pc = "done" /\ entry \in {"scalar_handler", "array_handler"}) =>
     shown = IF out = None THEN None
             ELSE [kind |-> "str", text |-> <<"$", out, "$">>]

\* the grid of C4 for a 2-D array, row cap R and column cap C
Source(k, cap, len) == IF k < cap THEN k - 1 ELSE len - 1
TruncatedGridAt(g, a, R, C, eo) ==
  /\ Len(g) = R + 1
  /\ \A r \in 1..(R + 1) :
       /\ Len(g[r]) = C + 1
       /\ \A c \in 1..(C + 1) :
            /\ (r # R /\ c # C) =>
                 g[r][c] = Cell(a, Source(r, R, a.rows), Source(c, C, a.cols), eo).e
            /\ (g[r][c] = D_ROWS) <=> (r = R /\ c = C)

\* C4: for every truncation window and every 2-D array with more rows than
\* the row cap and more columns than the column cap, _nsimplify_matrix
\* returns a grid of row cap + 1 rows and column cap + 1 columns: the leading
\* rows and columns, the last row and column, an ellipsis row above the last
\* row, an ellipsis column before the last column, and the diagonal ellipsis
\* exactly where the two cross.
C4_TruncatedGrid ==
  (Rendering /\ array.ndim = 2 /\ Numeric(array)
     /\ array.rows > truncate_to[2] /\ array.cols > truncate_to[1]) =>
       /\ out # None
       /\ TruncatedGridAt(out.of, array, truncate_to[2], truncate_to[1], orc)

\* the column of C5 for a 1-D array of n elements and row limit R
VectorAt(g, a, R, eo) ==
  LET n == a.rows
  IN IF n <= R
       THEN /\ Len(g) = n
            /\ \A r \in 1..n : g[r] = <<Cell(a, r - 1, 0, eo).e>>
       ELSE /\ Len(g) = R + 1
            /\ \A r \in 1..(R - 1) : g[r] = <<Cell(a, r - 1, 0, eo).e>>
            /\ g[R] = <<V_ROWS>>
            /\ g[R + 1] = <<Cell(a, n - 1, 0, eo).e>>

\* C5: a 1-D array of n elements is rendered, for a row limit R, as all its
\* n elements in order when n <= R, and when n > R as R + 1 rows: elements
\* 0..R-2, the vertical ellipsis, and the last element.
C5_Vector ==
  (Rendering /\ array.ndim = 1 /\ Numeric(array) /\ array.rows > 0) =>
     /\ out # None
     /\ VectorAt(out.of, array, truncate_to[2], orc)

C5_Witness ==
  /\ Rendering /\ pc = "done" /\ array.ndim = 1 /\ Numeric(array)
  /\ truncate_to[2] = 3 /\ array.rows = 5
  /\ out # None
  /\ Len(out.of) = 4
  /\ out.of[3] = <<V_ROWS>>
  /\ out.of[4] = <<Cell(array, 4, 0, orc).e>>

\* C6: an empty array, an array of strings or objects and an array of more
\* than 2 dimensions are answered with None without any call of
\* _nsimplify_improved; a 0-D array of objects too.
Rejected(a) == Size(a) = 0 \/ a.kind \in {"U", "S", "O"} \/ a.ndim > 2
C6_RejectedUpFront ==
  (entry \in {"matrix", "array_handler"} /\ Rejected(array)) =>
     /\ calls = 0
     /\ pc \in {"matrix", "wrap", "done"}
     /\ pc # "matrix" => out = None

C6_Witness ==
  /\ entry = "matrix" /\ pc = "done"
  /\ array.ndim = 0 /\ array.kind = "O"
  /\ out = None /\ calls = 0

\* the candidate of a search fails one of the conditions (a)-(d)
Unacceptable(c, v, p) ==
  \/ Abs(c.val - v) > p.zero_tol
  \/ c.kind = "Rational" /\ c.q > p.max_denom
  \/ c.denHas
  \/ c.kind \notin {"Rational", "Symbolic"}

\* C7: for a value that is not complex with |value| >= zero_tol, when the
\* search raises, a check on the candidate raises, or the candidate is not
\* acceptable, the result is the rounding of the value to sig_digits
\* significant digits and no exception leaves the function.
C7_Fallback ==
  (Returned /\ ~value.cx /\ Abs(value.re) >= par.zero_tol
     /\ (orc.raise # "none" \/ Unacceptable(Candidate(value.re, par, orc), value.re, par))) =>
       expr = Ok(N(value.re, par.sig_digits))

C7_Witness ==
  /\ Returned /\ ~value.cx /\ entry = "improved"
  /\ value.re = 12 /\ par.sig_digits = 1
  /\ orc.raise = "d" /\ orc.near[1] = "exact" /\ orc.shape.kind = "Symbolic"
  /\ ~orc.shape.denHas
  /\ expr.tag = "ok" /\ expr.e.kind = "Float" /\ expr.e.val = 10

\* C8: a candidate that is returned lies at a distance strictly below
\* zero_tol from the value; at distance exactly zero_tol it is rejected.
C8_StrictTolerance ==
  (Returned /\ ~value.cx /\ Abs(value.re) >= par.zero_tol
     /\ orc.raise # "search" /\ expr = Ok(Candidate(value.re, par, orc))) =>
       Abs(expr.e.val - value.re) < par.zero_tol

\* C9: a complex value whose imaginary part is zero or below zero_tol in
\* magnitude gets the result of its real part alone.
C9_ZeroImag ==
  (Returned /\ value.cx /\ Abs(value.im) < par.zero_tol) => expr = real

C9_Witness ==
  /\ Returned /\ value.cx /\ pc = "done"
  /\ value.im # 0 /\ Abs(value.im) < par.zero_tol
  /\ expr = real /\ expr.tag = "ok" /\ expr.e.kind = "Symbolic"

\* the real parts of a result: the expression itself, or the two terms of a sum
Parts(e) == IF e.kind = "Add" THEN {e.re, e.im} ELSE {e}

\* C10: a rational that is returned, as the result or as a part of a complex
\* result, has reduced denominator at most max_denom; when the search returns
\* a rational with a larger denominator the value (or that part of a complex
\* value) becomes its rounding to sig_digits significant digits.
C10_DenominatorCap ==
  /\ expr.tag = "ok" =>
       \A e \in Parts(expr.e) : e.kind = "Rational" => e.q <= par.max_denom
  /\ (Returned /\ ~value.cx /\ Abs(value.re) >= par.zero_tol /\ over[1]) =>
       expr = Ok(N(value.re, par.sig_digits))
  /\ (value.cx /\ real.tag # "pending" /\ Abs(value.re) >= par.zero_tol /\ over[1]) =>
       real = Ok(N(value.re, par.sig_digits))
  /\ (value.cx /\ imag.tag # "pending" /\ Abs(value.im) >= par.zero_tol /\ over[2]) =>
       imag = Ok(N(value.im, par.sig_digits))

C10_Witness ==
  /\ value.cx /\ pc = "done" /\ expr.tag = "ok"
  /\ expr.e.kind = "Add"
  /\ over = <<FALSE, TRUE>>
  /\ expr.e.re.kind = "Rational" /\ expr.e.re.q = par.max_denom /\ par.max_denom > 1
  /\ expr.e.im.kind = "Float"

====
